---------------------------- MODULE Spec2Model ----------------------------
(***************************************************************************)
(* Request pipeline of the MySQL + JWT variant of the employee service:   *)
(* express.json -> rate limiter -> morgan -> cors -> route -> authenticate *)
(* -> zod validation -> pool.query -> response.  Every await of a handler  *)
(* is a separate step, so that handlers of concurrent requests interleave  *)
(* exactly where the event loop lets them.                                 *)
(*                                                                         *)
(* Strings that the code inspects are tuples of one-character strings;     *)
(* a body field that is missing (undefined) is the value Absent.           *)
(* Times are milliseconds, as Date.now() reports them.                     *)
(***************************************************************************)
EXTENDS Integers, Sequences, FiniteSets, TLC

VARIABLES
    users,        \* table users: rows [id, email, password]
    userAutoInc,  \* AUTO_INCREMENT counter of users
    employees,    \* table employees: rows [id, name, position]
    empAutoInc,   \* AUTO_INCREMENT counter of employees
    window,       \* the rate limiter's entry of the client: [start, count]
    now,          \* Date.now(), in milliseconds
    issued,       \* tokens that /login has handed to clients
    req,          \* the requests in flight, one per slot
    hist,         \* history: what the run has done so far (not program state)
    inMemory      \* the in-memory variant: its array employees and its last response

vars == <<users, userAutoInc, employees, empAutoInc, window, now, issued, req, hist,
         inMemory>>

----------------------------------------------------------------------------
(* Bounds of the model *)

MaxRequests == 3   \* requests a client sends within one window
MaxEmpId == 2      \* employee rows ever inserted
MaxTokens == 2     \* tokens held by clients
OverLimit == 2     \* requests sent beyond the limiter's max
MaxStaff == 3      \* employees the array of the in-memory variant holds

\* The requests that can be in flight at the same time
Slots == {1, 2}

----------------------------------------------------------------------------
(* Program constants *)

windowMs == 15 * 60 * 1000
max == 1000
bcryptRounds == 10
expiresInSec == 60 * 60
JWT_SECRET == "process.env.JWT_SECRET"
MinNameLen == 2
MinPositionLen == 2
MinPasswordLen == 6
MinLoginPasswordLen == 1

----------------------------------------------------------------------------
(* Values of request inputs *)

Absent == <<"undefined">>

IsString(v) == v # Absent

EmailA == <<"a", "@", "b", ".", "c", "o">>
EmailB == <<"b", "@", "b", ".", "c", "o">>
EmailBad == <<"a", "@", "b">>
PwGood == <<"s", "e", "c", "r", "e", "t", "1">>
PwShort == <<"a", "b", "c">>
PwEmpty == <<>>
NameJo == <<"J", "o">>
NameA == <<"A">>
NameBlank == <<" ", " ">>
PosEng == <<"E", "n", "g">>
PosQa == <<"Q", "A">>
PosX == <<"X">>

\* The bodies of POST /register and POST /login that clients send
Credentials(email, password) == [email |-> email, password |-> password]
CredentialBodies ==
    { Credentials(EmailA, PwGood), Credentials(EmailB, PwGood),
      Credentials(EmailA, PwShort), Credentials(EmailBad, PwGood),
      Credentials(EmailA, PwEmpty), Credentials(Absent, PwShort),
      Credentials(EmailBad, Absent) }

\* The bodies of POST /employees and PUT /employees/:id that clients send
Fields(name, position) == [name |-> name, position |-> position]
EmployeeBodies ==
    { Fields(NameJo, PosEng), Fields(NameBlank, PosQa), Fields(NameA, PosEng),
      Fields(NameJo, PosX), Fields(NameA, Absent), Fields(Absent, PosX) }

NoCredentials == Credentials(Absent, Absent)
NoFields == Fields(Absent, Absent)

\* The salts bcrypt can draw
Salts == {"salt1", "salt2"}

Letters == {"a", "b", "c", "o"}
Digits == {"1"}
AlNum == Letters \cup Digits
LocalChars == AlNum \cup {"_", "+", "-"}


----------------------------------------------------------------------------
(* zod *)

Positions_(s, c) == {i \in 1..Len(s) : s[i] = c}

\* z.string().email(): the local part, one "@", dot-separated labels and a
\* top-level label of at least two letters
IsEmail(s) ==
    /\ IsString(s)
    /\ Cardinality(Positions_(s, "@")) = 1
    /\ LET p == CHOOSE i \in Positions_(s, "@") : TRUE
           dots == {i \in Positions_(s, ".") : i > p}
       IN  /\ p > 1
           /\ s[1] # "."
           /\ \A i \in 1..(Len(s) - 1) : ~(s[i] = "." /\ s[i + 1] = ".")
           /\ \A i \in 1..(p - 1) : s[i] \in LocalChars \cup {".", "'"}
           /\ s[p - 1] \in LocalChars
           /\ dots # {}
           /\ LET q == CHOOSE i \in dots : \A j \in dots : j <= i
              IN  /\ Len(s) - q >= 2
                  /\ \A i \in (q + 1)..Len(s) : s[i] \in Letters
                  /\ \A i \in (p + 1)..(q - 1) : s[i] \in AlNum \cup {"-", "."}
                  /\ \A i \in (p + 1)..q :
                        (i = p + 1 \/ s[i - 1] = ".") => s[i] \in AlNum

Issue(path, message) == [path |-> path, message |-> message]

\* z.string().min(n, message) on one field: the issues it raises
MinIssues(path, v, n, message) ==
    IF ~IsString(v) THEN <<Issue(path, "Required")>>
    ELSE IF Len(v) < n THEN <<Issue(path, message)>>
    ELSE <<>>

EmailIssues(v) ==
    IF ~IsString(v) THEN <<Issue("email", "Required")>>
    ELSE IF ~IsEmail(v) THEN <<Issue("email", "Invalid email")>>
    ELSE <<>>

\* employeeSchema.parse: every field is evaluated, the issues are collected
employeeSchema(name, position) ==
    MinIssues("name", name, MinNameLen, "Name must be at least 2 characters")
    \o MinIssues("position", position, MinPositionLen, "Position cannot be empty")

\* userSchema.parse
userSchema(email, password) ==
    EmailIssues(email)
    \o MinIssues("password", password, MinPasswordLen,
                 "String must contain at least 6 character(s)")

\* the schema that /login builds inline
loginSchema(email, password) ==
    EmailIssues(email)
    \o MinIssues("password", password, MinLoginPasswordLen, "Password cannot be empty")

----------------------------------------------------------------------------
(* bcryptjs *)

\* bcrypt.hash(password, 10): the salt is kept in the output
bcryptHash(password, salt) ==
    [rounds |-> bcryptRounds, salt |-> salt, digest |-> <<salt, password>>]

\* bcrypt.compare(password, hash): recomputed with the salt of the hash
bcryptCompare(password, h) == bcryptHash(password, h.salt) = h

----------------------------------------------------------------------------
(* jsonwebtoken *)

Mac(key, userId, iat, exp) == [key |-> key, userId |-> userId, iat |-> iat, exp |-> exp]

\* jwt.sign({userId}, secret, {expiresIn: '1h'}) at Date.now() = t:
\* iat is t in whole seconds, exp is iat + 3600
jwtSign(userId, secret, t) ==
    LET iat == t \div 1000
    IN  [userId |-> userId, iat |-> iat, exp |-> iat + expiresInSec,
         sig |-> Mac(secret, userId, iat, iat + expiresInSec)]

NoToken == [userId |-> 0, iat |-> 0, exp |-> 0, sig |-> Mac("", 0, 0, 0)]

\* One space-separated word of an Authorization header
Word(kind, tok) == [kind |-> kind, tok |-> tok]
Bearer == Word("scheme", NoToken)
EmptyWord == Word("empty", NoToken)
JunkWord == Word("junk", NoToken)
JwtWord(tok) == Word("jwt", tok)
Undefined == Word("undefined", NoToken)

\* jwtVerify that takes a token to be expired only after the second exp
jwtVerify_ExpiredAfterExp(word, secret, t) ==
    IF word.kind # "jwt" THEN "invalid"
    ELSE IF word.tok.sig # Mac(secret, word.tok.userId, word.tok.iat, word.tok.exp)
         THEN "invalid"
    ELSE IF t \div 1000 > word.tok.exp THEN "expired"
    ELSE "ok"

\* jwtVerify that looks at the expiry before the signature
jwtVerify_ExpiryFirst(word, secret, t) ==
    IF word.kind # "jwt" THEN "invalid"
    ELSE IF t \div 1000 >= word.tok.exp THEN "expired"
    ELSE IF word.tok.sig # Mac(secret, word.tok.userId, word.tok.iat, word.tok.exp)
         THEN "invalid"
    ELSE "ok"

\* jwt.verify(token, secret) at Date.now() = t: the structure, then the
\* signature, then the expiry (in whole seconds, expired from exp on)
jwtVerify(word, secret, t) ==
    IF word.kind # "jwt" THEN "invalid"
    ELSE IF word.tok.sig # Mac(secret, word.tok.userId, word.tok.iat, word.tok.exp)
         THEN "invalid"
    ELSE IF t \div 1000 >= word.tok.exp THEN "expired"
    ELSE "ok"

\* What a client can do to a token it holds: change the payload and keep the
\* signature, or sign with a key of its own
Tampered(tok) ==
    { [tok EXCEPT !.exp = @ + expiresInSec],
      [tok EXCEPT !.sig = Mac("guess", tok.userId, tok.iat, tok.exp)] }

\* The Authorization headers a client can send
Headers ==
    {<<>>, <<Bearer>>, <<Bearer, EmptyWord>>, <<Bearer, JunkWord>>}
    \cup {<<Bearer, JwtWord(t)>> : t \in issued}
    \cup {<<JwtWord(t)>> : t \in issued}
    \cup UNION {{<<Bearer, JwtWord(x)>> : x \in Tampered(t)} : t \in issued}

\* req.headers.authorization?.split(' ')[1]
headerToken(h) == IF Len(h) >= 2 THEN h[2] ELSE Undefined

\* !token
Falsy(word) == word.kind \in {"undefined", "empty"}

----------------------------------------------------------------------------
(* Requests and responses *)

Routes == {"register", "login", "create", "list", "get", "update", "delete", "options"}
Protected == {"create", "update", "delete"}
WithBody == {"register", "login", "create", "update"}

\* req.params.id as it stands in the URL
IdParams == {<<"1">>, <<"2">>, <<"3">>}

DigitValue(c) ==
    CASE c = "0" -> 0 [] c = "1" -> 1 [] c = "2" -> 2 [] c = "3" -> 3 [] c = "4" -> 4
      [] c = "5" -> 5 [] c = "6" -> 6 [] c = "7" -> 7 [] c = "8" -> 8 [] c = "9" -> 9
      [] OTHER -> -1

\* The number MySQL compares an INT column with when the parameter is a
\* string: the value of its leading digits
RECURSIVE LeadingNumber(_, _)
LeadingNumber(s, acc) ==
    IF s = <<>> \/ DigitValue(Head(s)) < 0 THEN acc
    ELSE LeadingNumber(Tail(s), 10 * acc + DigitValue(Head(s)))

mysqlNumber(s) == LeadingNumber(s, 0)

NoHash == [rounds |-> 0, salt |-> "", digest |-> <<>>]
NoRow == [id |-> 0, email |-> Absent, password |-> NoHash]

Body(error, details, message, token, rows) ==
    [error |-> error, details |-> details, message |-> message, token |-> token,
     rows |-> rows]
NoBody == Body("", <<>>, "", NoToken, {})
ErrorBody(error) == Body(error, <<>>, "", NoToken, {})
ZodBody(error, issues) == Body(error, issues, "", NoToken, {})
MessageBody(message) == Body("", <<>>, message, NoToken, {})
TokenBody(token) == Body("", <<>>, "", token, {})
RowsBody(rows) == Body("", <<>>, "", NoToken, rows)

\* The text of the error that a failed pool.query throws
StoreDown == "connect ECONNREFUSED"

\* The in-memory variant: its records and its responses
Employee(id, name, position) == [id |-> id, name |-> name, position |-> position]
InitialEmployee ==
    Employee(1, <<"A", "l", "i">>, <<"M", "a", "n", "a", "g", "e", "r">>)
NoEmployee == Employee(0, Absent, Absent)

Res(status, text, employee) == [status |-> status, text |-> text, employee |-> employee]
NoRes == Res(0, "", NoEmployee)

Idle ==
    [pc |-> "idle", route |-> "none", header |-> <<>>, email |-> Absent,
     password |-> Absent, name |-> Absent, position |-> Absent, id |-> <<>>,
     user |-> NoToken, hashed |-> NoHash, found |-> NoRow,
     status |-> 0, body |-> NoBody, by |-> "none",
     responses |-> 0,    \* the responses written for the request
     \* history of the request, kept for the properties
     verdict |-> "none", authAt |-> 0, known |-> FALSE, dbErr |-> FALSE, dup |-> FALSE]

Sending(r, status, body, by) ==
    [req[r] EXCEPT !.pc = "done", !.status = status, !.body = body, !.by = by,
                   !.responses = @ + 1]

Init ==
    /\ users = {}
    /\ userAutoInc = 1
    /\ employees = {}
    /\ empAutoInc = 1
    /\ window = [open |-> FALSE, start |-> 0, count |-> 0]
    /\ now = 0
    /\ issued = {}
    /\ req = [r \in Slots |-> Idle]
    /\ hist = [passed |-> 0,     \* requests the limiter passed on in its window
               created |-> <<>>,  \* the records POST /employees returned, in order
               updated |-> {},    \* ids that a PUT has written
               deleted |-> {},    \* ids that a DELETE has removed
               minted |-> {}]     \* <<token, time>> of every successful login
    /\ inMemory = [employees |-> <<InitialEmployee>>, res |-> NoRes]

InFlight(route) ==
    Cardinality({r \in Slots : req[r].pc \notin {"idle", "done"} /\ req[r].route = route})

\* The window the limiter counts in at this moment: a new one when there is
\* none, or when windowMs has elapsed since the current one started
CurrentWindow ==
    IF ~window.open \/ now - window.start >= windowMs
    THEN [open |-> TRUE, start |-> now, count |-> 0]
    ELSE window

\* The requests a client can send to the given routes, with bodies, URL
\* parameters and Authorization headers from the given sets; a body can also
\* be text that is no JSON
Inputs(routes, headers, creds, fields, ids) ==
    [route : routes \cap {"register", "login"}, header : {<<>>}, cred : creds,
     fields : {NoFields}, id : {<<>>}, malformed : BOOLEAN]
    \cup [route : routes \cap {"create"}, header : headers, cred : {NoCredentials},
          fields : fields, id : {<<>>}, malformed : BOOLEAN]
    \cup [route : routes \cap {"update"}, header : headers, cred : {NoCredentials},
          fields : fields, id : ids, malformed : BOOLEAN]
    \cup [route : routes \cap {"delete"}, header : headers, cred : {NoCredentials},
          fields : {NoFields}, id : ids, malformed : {FALSE}]
    \cup [route : routes \cap {"get"}, header : {<<>>}, cred : {NoCredentials},
          fields : {NoFields}, id : ids, malformed : {FALSE}]
    \cup [route : routes \cap {"list", "options"}, header : {<<>>},
          cred : {NoCredentials}, fields : {NoFields}, id : {<<>>},
          malformed : {FALSE}]

\* A client sends the request in (at most cap requests to one window of the
\* limiter); express.json() parses its body
Arrive(r, in, cap) ==
    /\ req[r].pc = "idle"
    /\ CurrentWindow.count + Cardinality({q \in Slots : req[q].pc = "limiter"}) < cap
    /\ in.route = "create" => empAutoInc + InFlight("create") <= MaxEmpId
    /\ in.route = "login" => Cardinality(issued) + InFlight("login") < MaxTokens
    /\ LET q == [Idle EXCEPT !.route = in.route, !.header = in.header,
                             !.email = in.cred.email, !.password = in.cred.password,
                             !.name = in.fields.name, !.position = in.fields.position,
                             !.id = in.id,
                             !.known =
                                \/ \E u \in users : u.email = in.cred.email
                                \/ \E e \in employees : e.id = mysqlNumber(in.id)]
       IN  req' = [req EXCEPT ![r] =
                    IF in.malformed
                    THEN [q EXCEPT !.pc = "done", !.status = 400, !.by = "json",
                                   !.body = ErrorBody("Unexpected token in JSON"),
                                   !.responses = 1]
                    ELSE [q EXCEPT !.pc = "limiter"]]
    /\ UNCHANGED <<inMemory, users, userAutoInc, employees, empAutoInc, window, now, issued, hist>>

\* RateLimit that still lets the request after the last allowed one pass
RateLimit_OffByOne(r) ==
    /\ req[r].pc = "limiter"
    /\ LET w == CurrentWindow
           hits == w.count + 1
           passedBefore == IF w = window THEN hist.passed ELSE 0
       IN  /\ window' = [w EXCEPT !.count = hits]
           /\ IF hits > max + 1
              THEN /\ req' = [req EXCEPT ![r] =
                          Sending(r, 429, ErrorBody("Too many requests"), "limiter")]
                   /\ hist' = [hist EXCEPT !.passed = passedBefore]
              ELSE /\ req' = [req EXCEPT ![r].pc = "cors"]
                   /\ hist' = [hist EXCEPT !.passed = passedBefore + 1]
    /\ UNCHANGED <<inMemory, users, userAutoInc, employees, empAutoInc, now, issued>>

\* app.use(limiter): count the request in the client's window, answer 429
\* beyond max and pass the request on otherwise
RateLimit(r) ==
    /\ req[r].pc = "limiter"
    /\ LET w == CurrentWindow
           hits == w.count + 1
           passedBefore == IF w = window THEN hist.passed ELSE 0
       IN  /\ window' = [w EXCEPT !.count = hits]
           /\ IF hits > max
              THEN /\ req' = [req EXCEPT ![r] =
                          Sending(r, 429, ErrorBody("Too many requests"), "limiter")]
                   /\ hist' = [hist EXCEPT !.passed = passedBefore]
              ELSE /\ req' = [req EXCEPT ![r].pc = "cors"]
                   /\ hist' = [hist EXCEPT !.passed = passedBefore + 1]
    /\ UNCHANGED <<inMemory, users, userAutoInc, employees, empAutoInc, now, issued>>

\* app.use(morgan), app.use(cors) and the router: a preflight is answered
\* by cors, a protected route runs authenticate before its handler
Forward(r) ==
    /\ req[r].pc = "cors"
    /\ req' = [req EXCEPT ![r] =
                IF req[r].route = "options"
                THEN Sending(r, 204, NoBody, "cors")
                ELSE [req[r] EXCEPT !.pc =
                        IF req[r].route \in Protected THEN "auth" ELSE "handler"]]
    /\ UNCHANGED <<inMemory, users, userAutoInc, employees, empAutoInc, window, now, issued, hist>>

\* authenticate without the return after the 401 for a missing token, and
\* with next() after the 400 for a token that does not verify
authenticate_AlwaysNext(r) ==
    /\ req[r].pc = "auth"
    /\ LET token == headerToken(req[r].header)
           verdict == jwtVerify(token, JWT_SECRET, now)
       IN  req' = [req EXCEPT ![r] =
                [req[r] EXCEPT !.pc = "handler", !.user = token.tok,
                               !.verdict = IF Falsy(token) THEN "missing" ELSE verdict,
                               !.authAt = now]]
    /\ UNCHANGED <<inMemory, users, userAutoInc, employees, empAutoInc, window, now, issued, hist>>

\* authenticate without the return after the 401 for a missing token:
\* jwt.verify(undefined) throws and the catch writes a second response
authenticate_NoReturn(r) ==
    /\ req[r].pc = "auth"
    /\ LET token == headerToken(req[r].header)
           verdict == jwtVerify(token, JWT_SECRET, now)
       IN  req' = [req EXCEPT ![r] =
                IF Falsy(token)
                THEN [Sending(r, 401, ErrorBody("Access denied"), "auth")
                        EXCEPT !.verdict = "missing", !.authAt = now, !.responses = 2]
                ELSE IF verdict = "ok"
                THEN [req[r] EXCEPT !.pc = "handler", !.user = token.tok,
                                    !.verdict = verdict, !.authAt = now]
                ELSE [Sending(r, 400, ErrorBody("Invalid token"), "auth")
                        EXCEPT !.verdict = verdict, !.authAt = now]]
    /\ UNCHANGED <<inMemory, users, userAutoInc, employees, empAutoInc, window, now, issued, hist>>

\* authenticate
authenticate(r) ==
    /\ req[r].pc = "auth"
    /\ LET token == headerToken(req[r].header)
           verdict == jwtVerify(token, JWT_SECRET, now)
       IN  req' = [req EXCEPT ![r] =
                IF Falsy(token)
                THEN [Sending(r, 401, ErrorBody("Access denied"), "auth")
                        EXCEPT !.verdict = "missing", !.authAt = now]
                ELSE IF verdict = "ok"
                THEN [req[r] EXCEPT !.pc = "handler", !.user = token.tok,
                                    !.verdict = verdict, !.authAt = now]
                ELSE [Sending(r, 400, ErrorBody("Invalid token"), "auth")
                        EXCEPT !.verdict = verdict, !.authAt = now]]
    /\ UNCHANGED <<inMemory, users, userAutoInc, employees, empAutoInc, window, now, issued, hist>>

\* The response has been written: the slot is free again
Deliver(r) ==
    /\ req[r].pc = "done"
    /\ req' = [req EXCEPT ![r] = Idle]
    /\ UNCHANGED <<inMemory, users, userAutoInc, employees, empAutoInc, window, now, issued, hist>>

\* Time passes, to the next instant of the given grid
Tick(grid) ==
    /\ \E t \in grid : t > now /\ (\A u \in grid : u > now => t <= u) /\ now' = t
    /\ UNCHANGED <<inMemory, users, userAutoInc, employees, empAutoInc, window, issued, req, hist>>

----------------------------------------------------------------------------
(* POST /register *)

\* userSchema.parse(req.body) and bcrypt.hash; a ZodError lands in the
\* handler's only catch
register(r) ==
    /\ req[r].pc = "handler" /\ req[r].route = "register"
    /\ IF userSchema(req[r].email, req[r].password) # <<>>
       THEN req' = [req EXCEPT ![r] =
                Sending(r, 500, ErrorBody("Registration failed"), "validate")]
       ELSE \E salt \in Salts :
                req' = [req EXCEPT ![r] =
                    [req[r] EXCEPT !.pc = "register_select",
                                   !.hashed = bcryptHash(req[r].password, salt)]]
    /\ UNCHANGED <<inMemory, users, userAutoInc, employees, empAutoInc, window, now, issued, hist>>

\* registerSelect without the test of the SELECT's result
registerSelect_NoCheck(r) ==
    /\ req[r].pc = "register_select"
    /\ \E up \in BOOLEAN :
        req' = [req EXCEPT ![r] =
            IF ~up
            THEN [Sending(r, 500, ErrorBody("Registration failed"), "store")
                    EXCEPT !.dbErr = TRUE]
            ELSE [req[r] EXCEPT !.pc = "register_insert"]]
    /\ UNCHANGED <<inMemory, users, userAutoInc, employees, empAutoInc, window, now, issued, hist>>

\* SELECT * FROM users WHERE email = ?
registerSelect(r) ==
    /\ req[r].pc = "register_select"
    /\ \E up \in BOOLEAN :
        req' = [req EXCEPT ![r] =
            IF ~up
            THEN [Sending(r, 500, ErrorBody("Registration failed"), "store")
                    EXCEPT !.dbErr = TRUE]
            ELSE IF \E u \in users : u.email = req[r].email
            THEN Sending(r, 409, ErrorBody("Email already exists"), "store")
            ELSE [req[r] EXCEPT !.pc = "register_insert"]]
    /\ UNCHANGED <<inMemory, users, userAutoInc, employees, empAutoInc, window, now, issued, hist>>

\* INSERT INTO users (email, password): the UNIQUE key on email rejects a
\* second row with the same email, and the error lands in the catch
registerInsert(r) ==
    /\ req[r].pc = "register_insert"
    /\ \E up \in BOOLEAN :
        IF ~up
        THEN /\ req' = [req EXCEPT ![r] =
                    [Sending(r, 500, ErrorBody("Registration failed"), "store")
                        EXCEPT !.dbErr = TRUE]]
             /\ UNCHANGED <<users, userAutoInc>>
        ELSE IF \E u \in users : u.email = req[r].email
        THEN /\ req' = [req EXCEPT ![r] =
                    [Sending(r, 500, ErrorBody("Registration failed"), "store")
                        EXCEPT !.dup = TRUE]]
             /\ UNCHANGED <<users, userAutoInc>>
        ELSE /\ users' = users \cup {[id |-> userAutoInc, email |-> req[r].email,
                                      password |-> req[r].hashed]}
             /\ userAutoInc' = userAutoInc + 1
             /\ req' = [req EXCEPT ![r] =
                    Sending(r, 201, MessageBody("User registered successfully"), "store")]
    /\ UNCHANGED <<inMemory, employees, empAutoInc, window, now, issued, hist>>

----------------------------------------------------------------------------
(* POST /login *)

\* the inline schema's parse
login(r) ==
    /\ req[r].pc = "handler" /\ req[r].route = "login"
    /\ LET issues == loginSchema(req[r].email, req[r].password)
       IN  req' = [req EXCEPT ![r] =
                IF issues # <<>>
                THEN Sending(r, 400, ZodBody("Validation error", issues), "validate")
                ELSE [req[r] EXCEPT !.pc = "login_select"]]
    /\ UNCHANGED <<inMemory, users, userAutoInc, employees, empAutoInc, window, now, issued, hist>>

\* SELECT * FROM users WHERE email = ?; user = rows[0]
loginSelect(r) ==
    /\ req[r].pc = "login_select"
    /\ \E up \in BOOLEAN :
        req' = [req EXCEPT ![r] =
            IF ~up
            THEN [Sending(r, 500, ErrorBody("Login failed"), "store")
                    EXCEPT !.dbErr = TRUE]
            ELSE IF ~\E u \in users : u.email = req[r].email
            THEN Sending(r, 401, ErrorBody("Invalid credentials"), "store")
            ELSE [req[r] EXCEPT !.pc = "login_compare",
                                !.found = CHOOSE u \in users : u.email = req[r].email]]
    /\ UNCHANGED <<inMemory, users, userAutoInc, employees, empAutoInc, window, now, issued, hist>>

\* loginCompare that signs a token whatever bcrypt.compare says
loginCompare_NoCompare(r) ==
    /\ req[r].pc = "login_compare"
    /\ LET token == jwtSign(req[r].found.id, JWT_SECRET, now)
       IN  /\ req' = [req EXCEPT ![r] = Sending(r, 200, TokenBody(token), "store")]
           /\ issued' = issued \cup {token}
           /\ hist' = [hist EXCEPT !.minted = @ \cup {<<token, now>>}]
    /\ UNCHANGED <<inMemory, users, userAutoInc, employees, empAutoInc, window, now>>

\* bcrypt.compare, then jwt.sign and the token in the response
loginCompare(r) ==
    /\ req[r].pc = "login_compare"
    /\ IF ~bcryptCompare(req[r].password, req[r].found.password)
       THEN /\ req' = [req EXCEPT ![r] =
                    Sending(r, 401, ErrorBody("Invalid credentials"), "store")]
            /\ UNCHANGED <<issued, hist>>
       ELSE LET token == jwtSign(req[r].found.id, JWT_SECRET, now)
            IN  /\ req' = [req EXCEPT ![r] = Sending(r, 200, TokenBody(token), "store")]
                /\ issued' = issued \cup {token}
                /\ hist' = [hist EXCEPT !.minted = @ \cup {<<token, now>>}]
    /\ UNCHANGED <<inMemory, users, userAutoInc, employees, empAutoInc, window, now>>

----------------------------------------------------------------------------
(* The employee routes *)

Row(id, name, position) == [id |-> id, name |-> name, position |-> position]

\* create that hands the body to the INSERT as it came
create_NoValidation(r) ==
    /\ req[r].pc = "handler" /\ req[r].route = "create"
    /\ req' = [req EXCEPT ![r] = [req[r] EXCEPT !.pc = "create_insert"]]
    /\ UNCHANGED <<inMemory, users, userAutoInc, employees, empAutoInc, window, now, issued, hist>>

\* employeeSchema.parse(req.body) of POST /employees
create(r) ==
    /\ req[r].pc = "handler" /\ req[r].route = "create"
    /\ LET issues == employeeSchema(req[r].name, req[r].position)
       IN  req' = [req EXCEPT ![r] =
                IF issues # <<>>
                THEN Sending(r, 400, ZodBody("Validation failed", issues), "validate")
                ELSE [req[r] EXCEPT !.pc = "create_insert"]]
    /\ UNCHANGED <<inMemory, users, userAutoInc, employees, empAutoInc, window, now, issued, hist>>

\* createInsert whose response carries affectedRows as the id
createInsert_AffectedRows(r) ==
    /\ req[r].pc = "create_insert"
    /\ \E up \in BOOLEAN :
        IF ~up
        THEN /\ req' = [req EXCEPT ![r] =
                    [Sending(r, 400, ErrorBody(StoreDown), "store") EXCEPT !.dbErr = TRUE]]
             /\ UNCHANGED <<employees, empAutoInc, hist>>
        ELSE LET row == Row(empAutoInc, req[r].name, req[r].position)
                 sent == Row(1, req[r].name, req[r].position)
             IN  /\ employees' = employees \cup {row}
                 /\ empAutoInc' = empAutoInc + 1
                 /\ req' = [req EXCEPT ![r] = Sending(r, 201, RowsBody({sent}), "store")]
                 /\ hist' = [hist EXCEPT !.created = Append(@, sent)]
    /\ UNCHANGED <<inMemory, users, userAutoInc, window, now, issued>>

\* createInsert on a table whose next id is one more than the largest id
\* it holds
createInsert_MaxPlusOne(r) ==
    /\ req[r].pc = "create_insert"
    /\ \E up \in BOOLEAN :
        IF ~up
        THEN /\ req' = [req EXCEPT ![r] =
                    [Sending(r, 400, ErrorBody(StoreDown), "store") EXCEPT !.dbErr = TRUE]]
             /\ UNCHANGED <<employees, empAutoInc, hist>>
        ELSE LET ids == {e.id : e \in employees}
                 next == IF ids = {} THEN 1
                         ELSE 1 + CHOOSE i \in ids : \A j \in ids : j <= i
                 row == Row(next, req[r].name, req[r].position)
             IN  /\ employees' = employees \cup {row}
                 /\ empAutoInc' = empAutoInc + 1
                 /\ req' = [req EXCEPT ![r] = Sending(r, 201, RowsBody({row}), "store")]
                 /\ hist' = [hist EXCEPT !.created = Append(@, row)]
    /\ UNCHANGED <<inMemory, users, userAutoInc, window, now, issued>>

\* INSERT INTO employees (name, position); the response carries insertId
createInsert(r) ==
    /\ req[r].pc = "create_insert"
    /\ \E up \in BOOLEAN :
        IF ~up
        THEN /\ req' = [req EXCEPT ![r] =
                    [Sending(r, 400, ErrorBody(StoreDown), "store") EXCEPT !.dbErr = TRUE]]
             /\ UNCHANGED <<employees, empAutoInc, hist>>
        ELSE LET row == Row(empAutoInc, req[r].name, req[r].position)
             IN  /\ employees' = employees \cup {row}
                 /\ empAutoInc' = empAutoInc + 1
                 /\ req' = [req EXCEPT ![r] = Sending(r, 201, RowsBody({row}), "store")]
                 /\ hist' = [hist EXCEPT !.created = Append(@, row)]
    /\ UNCHANGED <<inMemory, users, userAutoInc, window, now, issued>>

\* GET /employees: SELECT * FROM employees
list(r) ==
    /\ req[r].pc = "handler" /\ req[r].route = "list"
    /\ \E up \in BOOLEAN :
        req' = [req EXCEPT ![r] =
            IF ~up
            THEN [Sending(r, 500, ErrorBody(StoreDown), "store") EXCEPT !.dbErr = TRUE]
            ELSE Sending(r, 200, RowsBody(employees), "store")]
    /\ UNCHANGED <<inMemory, users, userAutoInc, employees, empAutoInc, window, now, issued, hist>>

\* GET /employees/:id: SELECT * FROM employees WHERE id = ?
get(r) ==
    /\ req[r].pc = "handler" /\ req[r].route = "get"
    /\ \E up \in BOOLEAN :
        LET rows == {e \in employees : e.id = mysqlNumber(req[r].id)}
        IN  req' = [req EXCEPT ![r] =
                IF ~up
                THEN [Sending(r, 500, ErrorBody(StoreDown), "store") EXCEPT !.dbErr = TRUE]
                ELSE IF rows = {}
                THEN Sending(r, 404, ErrorBody("Employee not found"), "store")
                ELSE Sending(r, 200, RowsBody(rows), "store")]
    /\ UNCHANGED <<inMemory, users, userAutoInc, employees, empAutoInc, window, now, issued, hist>>

\* update that hands the body to the UPDATE as it came
update_NoValidation(r) ==
    /\ req[r].pc = "handler" /\ req[r].route = "update"
    /\ req' = [req EXCEPT ![r] = [req[r] EXCEPT !.pc = "update_query"]]
    /\ UNCHANGED <<inMemory, users, userAutoInc, employees, empAutoInc, window, now, issued, hist>>

\* employeeSchema.parse(req.body) of PUT /employees/:id
update(r) ==
    /\ req[r].pc = "handler" /\ req[r].route = "update"
    /\ LET issues == employeeSchema(req[r].name, req[r].position)
       IN  req' = [req EXCEPT ![r] =
                IF issues # <<>>
                THEN Sending(r, 400, ZodBody("Validation failed", issues), "validate")
                ELSE [req[r] EXCEPT !.pc = "update_query"]]
    /\ UNCHANGED <<inMemory, users, userAutoInc, employees, empAutoInc, window, now, issued, hist>>

\* updateQuery whose miss of the row ends in the handler's catch for
\* unexpected errors
updateQuery_ThrowsOnMissing(r) ==
    /\ req[r].pc = "update_query"
    /\ \E up \in BOOLEAN :
        LET rows == {e \in employees : e.id = mysqlNumber(req[r].id)}
        IN  IF ~up
            THEN /\ req' = [req EXCEPT ![r] =
                        [Sending(r, 400, ErrorBody(StoreDown), "store")
                            EXCEPT !.dbErr = TRUE]]
                 /\ UNCHANGED <<employees, hist>>
            ELSE IF rows = {}
            THEN /\ req' = [req EXCEPT ![r] =
                        Sending(r, 500, ErrorBody("Server error"), "store")]
                 /\ UNCHANGED <<employees, hist>>
            ELSE /\ employees' = (employees \ rows)
                        \cup {Row(e.id, req[r].name, req[r].position) : e \in rows}
                 /\ req' = [req EXCEPT ![r] =
                        Sending(r, 200,
                                RowsBody({Row(req[r].id, req[r].name, req[r].position)}),
                                "store")]
                 /\ hist' = [hist EXCEPT !.updated = @ \cup {e.id : e \in rows}]
    /\ UNCHANGED <<inMemory, users, userAutoInc, empAutoInc, window, now, issued>>

\* updateQuery whose affectedRows counts the rows that the UPDATE changed,
\* not the rows that it matched
updateQuery_ChangedRows(r) ==
    /\ req[r].pc = "update_query"
    /\ \E up \in BOOLEAN :
        LET rows == {e \in employees : e.id = mysqlNumber(req[r].id)}
        IN  IF ~up
            THEN /\ req' = [req EXCEPT ![r] =
                        [Sending(r, 400, ErrorBody(StoreDown), "store")
                            EXCEPT !.dbErr = TRUE]]
                 /\ UNCHANGED <<employees, hist>>
            ELSE IF rows \subseteq {Row(e.id, req[r].name, req[r].position) : e \in rows}
            THEN /\ req' = [req EXCEPT ![r] =
                        Sending(r, 404, ErrorBody("Employee not found"), "store")]
                 /\ UNCHANGED <<employees, hist>>
            ELSE /\ employees' = (employees \ rows)
                        \cup {Row(e.id, req[r].name, req[r].position) : e \in rows}
                 /\ req' = [req EXCEPT ![r] =
                        Sending(r, 200,
                                RowsBody({Row(req[r].id, req[r].name, req[r].position)}),
                                "store")]
                 /\ hist' = [hist EXCEPT !.updated = @ \cup {e.id : e \in rows}]
    /\ UNCHANGED <<inMemory, users, userAutoInc, empAutoInc, window, now, issued>>

\* UPDATE employees SET name = ?, position = ? WHERE id = ?; the response
\* repeats req.params.id as it stands in the URL
updateQuery(r) ==
    /\ req[r].pc = "update_query"
    /\ \E up \in BOOLEAN :
        LET rows == {e \in employees : e.id = mysqlNumber(req[r].id)}
        IN  IF ~up
            THEN /\ req' = [req EXCEPT ![r] =
                        [Sending(r, 400, ErrorBody(StoreDown), "store")
                            EXCEPT !.dbErr = TRUE]]
                 /\ UNCHANGED <<employees, hist>>
            ELSE IF rows = {}
            THEN /\ req' = [req EXCEPT ![r] =
                        Sending(r, 404, ErrorBody("Employee not found"), "store")]
                 /\ UNCHANGED <<employees, hist>>
            ELSE /\ employees' = (employees \ rows)
                        \cup {Row(e.id, req[r].name, req[r].position) : e \in rows}
                 /\ req' = [req EXCEPT ![r] =
                        Sending(r, 200,
                                RowsBody({Row(req[r].id, req[r].name, req[r].position)}),
                                "store")]
                 /\ hist' = [hist EXCEPT !.updated = @ \cup {e.id : e \in rows}]
    /\ UNCHANGED <<inMemory, users, userAutoInc, empAutoInc, window, now, issued>>

\* delete without the test of affectedRows
delete_NoAffectedRows(r) ==
    /\ req[r].pc = "handler" /\ req[r].route = "delete"
    /\ \E up \in BOOLEAN :
        LET rows == {e \in employees : e.id = mysqlNumber(req[r].id)}
        IN  IF ~up
            THEN /\ req' = [req EXCEPT ![r] =
                        [Sending(r, 500, ErrorBody(StoreDown), "store")
                            EXCEPT !.dbErr = TRUE]]
                 /\ UNCHANGED <<employees, hist>>
            ELSE /\ employees' = employees \ rows
                 /\ req' = [req EXCEPT ![r] =
                        Sending(r, 200, MessageBody("Employee deleted successfully"),
                                "store")]
                 /\ hist' = [hist EXCEPT !.deleted = @ \cup {e.id : e \in rows}]
    /\ UNCHANGED <<inMemory, users, userAutoInc, empAutoInc, window, now, issued>>

\* DELETE FROM employees WHERE id = ?
delete(r) ==
    /\ req[r].pc = "handler" /\ req[r].route = "delete"
    /\ \E up \in BOOLEAN :
        LET rows == {e \in employees : e.id = mysqlNumber(req[r].id)}
        IN  IF ~up
            THEN /\ req' = [req EXCEPT ![r] =
                        [Sending(r, 500, ErrorBody(StoreDown), "store")
                            EXCEPT !.dbErr = TRUE]]
                 /\ UNCHANGED <<employees, hist>>
            ELSE IF rows = {}
            THEN /\ req' = [req EXCEPT ![r] =
                        Sending(r, 404, ErrorBody("Employee not found"), "store")]
                 /\ UNCHANGED <<employees, hist>>
            ELSE /\ employees' = employees \ rows
                 /\ req' = [req EXCEPT ![r] =
                        Sending(r, 200, MessageBody("Employee deleted successfully"),
                                "store")]
                 /\ hist' = [hist EXCEPT !.deleted = @ \cup {e.id : e \in rows}]
    /\ UNCHANGED <<inMemory, users, userAutoInc, empAutoInc, window, now, issued>>

----------------------------------------------------------------------------
(* The in-memory variant: every handler runs to its response in one turn of
   the event loop *)

NaN == -1

\* parseInt(req.params.id): the value of the leading digits, NaN without one
parseInt(s) ==
    IF s = <<>> \/ DigitValue(Head(s)) < 0 THEN NaN ELSE LeadingNumber(s, 0)

\* The bodies of POST /employees: name and position are taken as they come
PostBodies == {Fields(NameJo, PosEng), Fields(NameA, Absent)}

\* The bodies of PUT /employees/:id: any part of an Employee, its id included
PutBodies == {[name |-> NameJo], [id |-> 1], [id |-> 2, position |-> PosQa]}

\* {...employees[employeeIndex], ...req.body}
Merge(old, body) ==
    [k \in DOMAIN old |-> IF k \in DOMAIN body THEN body[k] ELSE old[k]]

\* app.post('/employees'): the id is the length of the array plus one
postEmployees(body) ==
    /\ Len(inMemory.employees) < MaxStaff
    /\ inMemory' =
         [employees |-> Append(inMemory.employees,
                               Employee(Len(inMemory.employees) + 1,
                                        body.name, body.position)),
          res |-> Res(200, "Employee added!", NoEmployee)]
    /\ UNCHANGED <<users, userAutoInc, employees, empAutoInc, window, now, issued,
                   req, hist>>

\* app.get('/employees/:id'): find returns the first record with the id
getEmployee(param) ==
    /\ LET id == parseInt(param)
           found == {i \in DOMAIN inMemory.employees : inMemory.employees[i].id = id}
       IN  inMemory' =
             [inMemory EXCEPT !.res =
                IF found = {} THEN Res(404, "Employee not found", NoEmployee)
                ELSE Res(200, "", inMemory.employees[
                            CHOOSE i \in found : \A j \in found : i <= j])]
    /\ UNCHANGED <<users, userAutoInc, employees, empAutoInc, window, now, issued,
                   req, hist>>

\* app.put('/employees/:id'): the body is merged into the first record with
\* the id
putEmployee(param, body) ==
    /\ LET id == parseInt(param)
           found == {i \in DOMAIN inMemory.employees : inMemory.employees[i].id = id}
       IN  IF found = {}
           THEN inMemory' = [inMemory EXCEPT
                                !.res = Res(404, "Employee not found", NoEmployee)]
           ELSE LET employeeIndex == CHOOSE i \in found : \A j \in found : i <= j
                    merged == Merge(inMemory.employees[employeeIndex], body)
                IN  inMemory' =
                      [employees |-> [inMemory.employees EXCEPT ![employeeIndex] = merged],
                       res |-> Res(200, "", merged)]
    /\ UNCHANGED <<users, userAutoInc, employees, empAutoInc, window, now, issued,
                   req, hist>>

\* app.delete('/employees/:id'): filter drops every record with the id
deleteEmployee(param) ==
    /\ LET id == parseInt(param)
           kept == SelectSeq(inMemory.employees, LAMBDA e : e.id # id)
       IN  inMemory' =
             [employees |-> kept,
              res |-> IF Len(kept) = Len(inMemory.employees)
                      THEN Res(404, "Employee not found", NoEmployee)
                      ELSE Res(200, "Employee deleted successfully", NoEmployee)]
    /\ UNCHANGED <<users, userAutoInc, employees, empAutoInc, window, now, issued,
                   req, hist>>

----------------------------------------------------------------------------
(* Specifications *)

\* The stages every request goes through
Middleware(r) == RateLimit(r) \/ Forward(r) \/ Deliver(r)

Registration(r) == register(r) \/ registerSelect(r) \/ registerInsert(r)

Login(r) == login(r) \/ loginSelect(r) \/ loginCompare(r)

Writes(r) == create(r) \/ createInsert(r) \/ update(r) \/ updateQuery(r) \/ delete(r)

\* Instants around the expiry of a token minted in the first second
TimesAuth == {0, 500, 1000 * expiresInSec - 1, 1000 * expiresInSec, 1000 * expiresInSec + 500}

\* Instants around the end of the limiter's first window
TimesLimiter == {0, windowMs - 1, windowMs}

\* The whole service
Next ==
    \/ \E r \in Slots :
        \E in \in Inputs(Routes, Headers, CredentialBodies, EmployeeBodies, IdParams) :
            Arrive(r, in, MaxRequests)
    \/ \E r \in Slots : Middleware(r)
    \/ \E r \in Slots : authenticate(r)
    \/ \E r \in Slots : Registration(r)
    \/ \E r \in Slots : Login(r)
    \/ \E r \in Slots : Writes(r)
    \/ \E r \in Slots : list(r) \/ get(r)
    \/ Tick(TimesAuth \cup TimesLimiter)

Spec == Init /\ [][Next]_vars

\* Registrations only, two at a time
NextRegister ==
    \/ \E r \in Slots :
        \E in \in Inputs({"register"}, {}, CredentialBodies, {}, {}) :
            Arrive(r, in, MaxRequests)
    \/ \E r \in Slots : Middleware(r)
    \/ \E r \in Slots : Registration(r)

SpecRegister == Init /\ [][NextRegister]_vars

\* Registrations with bodies that pass userSchema, and logins
NextLogin ==
    \/ \E r \in Slots :
        \E in \in Inputs({"register"}, {},
                         {c \in CredentialBodies : userSchema(c.email, c.password) = <<>>},
                         {}, {})
                  \cup Inputs({"login"}, {}, CredentialBodies, {}, {}) :
            Arrive(r, in, MaxRequests)
    \/ \E r \in Slots : Middleware(r)
    \/ \E r \in Slots : Registration(r)
    \/ \E r \in Slots : Login(r)

SpecLogin == Init /\ [][NextLogin]_vars

\* One account, its logins, and the protected routes with every kind of
\* Authorization header, one request at a time, before and after the expiry
\* of the tokens of the first second
AuthInputs ==
    Inputs({"register"}, {}, {Credentials(EmailA, PwGood)}, {}, {})
    \cup Inputs({"login"}, {}, {Credentials(EmailA, PwGood)}, {}, {})
    \cup Inputs(Protected, Headers, {}, {Fields(NameJo, PosEng), Fields(NameA, PosEng)},
                {<<"1">>})

NextAuth ==
    \/ \E in \in AuthInputs : Arrive(1, in, MaxRequests)
    \/ Middleware(1)
    \/ authenticate(1)
    \/ Registration(1)
    \/ Login(1)
    \/ Writes(1)
    \/ Tick({0, 1000 * expiresInSec})

SpecAuth == Init /\ [][NextAuth]_vars

\* One account, its logins at several instants, and DELETE /employees/:id
\* with the tokens, at the instants of TimesAuth
ExpiryInputs ==
    Inputs({"register"}, {}, {Credentials(EmailA, PwGood)}, {}, {})
    \cup Inputs({"login"}, {}, {Credentials(EmailA, PwGood)}, {}, {})
    \cup Inputs({"delete"}, Headers, {}, {}, {<<"1">>})

NextExpiry ==
    \/ \E in \in ExpiryInputs : Arrive(1, in, MaxRequests)
    \/ Middleware(1)
    \/ authenticate(1)
    \/ Registration(1)
    \/ Login(1)
    \/ delete(1)
    \/ Tick(TimesAuth)

SpecExpiry == Init /\ [][NextExpiry]_vars

\* Preflights from one client, two requests at a time, up
\* to OverLimit requests beyond max in a window, around the end of the first
\* window
NextLimiter ==
    \/ \E r \in Slots :
        \E in \in Inputs({"options"}, {}, {}, {}, {}) : Arrive(r, in, max + OverLimit)
    \/ \E r \in Slots : Middleware(r)
    \/ Tick(TimesLimiter)

SpecLimiter == Init /\ [][NextLimiter]_vars

\* One account, its login, and the employee routes with the tokens of the
\* login or without a header, one request after the other
EmployeeInputs ==
    Inputs({"register", "login"}, {}, {Credentials(EmailA, PwGood)}, {}, {})
    \cup Inputs({"create", "update", "delete", "get"},
                {<<>>} \cup {<<Bearer, JwtWord(t)>> : t \in issued}, {},
                {Fields(NameJo, PosEng), Fields(NameBlank, PosQa), Fields(NameA, PosEng)},
                IdParams)

NextEmployees ==
    \/ \E in \in EmployeeInputs : Arrive(1, in, MaxRequests + 4)
    \/ Middleware(1)
    \/ authenticate(1)
    \/ Registration(1)
    \/ Login(1)
    \/ Writes(1)
    \/ get(1)

SpecEmployees == Init /\ [][NextEmployees]_vars

\* One account and its login, one employee, and PUT and DELETE of its id
\* with the tokens of the login, two requests at a time
RaceInputs ==
    Inputs({"register", "login"}, {}, {Credentials(EmailA, PwGood)}, {}, {})
    \cup Inputs({"create"}, {<<Bearer, JwtWord(t)>> : t \in issued}, {},
                {Fields(NameJo, PosEng)}, {})
    \cup Inputs({"update"}, {<<Bearer, JwtWord(t)>> : t \in issued}, {},
                {Fields(NameJo, PosEng), Fields(NameBlank, PosQa)}, {<<"1">>})
    \cup Inputs({"delete"}, {<<Bearer, JwtWord(t)>> : t \in issued}, {}, {},
                {<<"1">>})

NextRace ==
    \/ \E r \in Slots : \E in \in RaceInputs : Arrive(r, in, MaxRequests + 3)
    \/ \E r \in Slots : Middleware(r)
    \/ \E r \in Slots : authenticate(r)
    \/ \E r \in Slots : Registration(r)
    \/ \E r \in Slots : Login(r)
    \/ \E r \in Slots : Writes(r)

SpecRace == Init /\ [][NextRace]_vars

\* The in-memory variant, one request after the other
NextInMemory ==
    \/ \E body \in PostBodies : postEmployees(body)
    \/ \E param \in IdParams : getEmployee(param)
    \/ \E param \in IdParams : \E body \in PutBodies : putEmployee(param, body)
    \/ \E param \in IdParams : deleteEmployee(param)

SpecInMemory == Init /\ [][NextInMemory]_vars

----------------------------------------------------------------------------
(* Properties of registration *)

Done(r, route) == req[r].pc = "done" /\ req[r].route = route

\* The request was answered by its handler, not by an earlier stage
Handled(r) == req[r].by \in {"validate", "store"}

ValidCredentials(r) == userSchema(req[r].email, req[r].password) = <<>>

\* C1: two concurrent registrations of the same email (neither found the
\* email stored when it arrived, the store was up for both) are answered with
\* one 201 and one 409, and a request whose INSERT the UNIQUE key rejected is
\* never answered with 500.
C1_ConcurrentRegisterConflict ==
    /\ \A r1, r2 \in Slots :
        ( /\ r1 # r2
          /\ Done(r1, "register") /\ Done(r2, "register")
          /\ Handled(r1) /\ Handled(r2)
          /\ ValidCredentials(r1) /\ ValidCredentials(r2)
          /\ req[r1].email = req[r2].email
          /\ ~req[r1].known /\ ~req[r2].known
          /\ ~req[r1].dbErr /\ ~req[r2].dbErr )
        => {req[r1].status, req[r2].status} = {201, 409}
    /\ \A r \in Slots : req[r].dup => req[r].status # 500

\* C4: a registration whose body violates userSchema is answered with 400
\* and the list of violations, and no credential with its email is inserted
\* by it.
C4_RegisterValidation400 ==
    \A r \in Slots :
        (Done(r, "register") /\ Handled(r) /\ ~ValidCredentials(r))
        => /\ req[r].status = 400
           /\ req[r].body.details = userSchema(req[r].email, req[r].password)

\* C5 as stated: every registration for an email that was stored when the
\* request arrived is answered with 409 (the store being up).
C5_StoredEmailAlways409 ==
    \A r \in Slots :
        (Done(r, "register") /\ req[r].by # "json" /\ req[r].known /\ ~req[r].dbErr)
        => req[r].status = 409

UniqueEmails == \A u1, u2 \in users : u1.email = u2.email => u1 = u2

\* C5, amended: the store holds at most one credential per email; a
\* registration whose body passes userSchema, for an email that was stored
\* when it arrived, is answered with 409 (the store being up) and the step
\* that answers 409 leaves the users table as it was; no step removes or
\* changes a stored credential.
C5_UniqueEmailConflict ==
    /\ [](UniqueEmails /\
          \A r \in Slots :
            (Done(r, "register") /\ Handled(r) /\ ValidCredentials(r)
               /\ req[r].known /\ ~req[r].dbErr)
            => req[r].status = 409)
    /\ [][ /\ users \subseteq users'
           /\ \A r \in Slots :
                (req[r].pc # "done" /\ req'[r].pc = "done" /\ req'[r].status = 409)
                => users' = users ]_vars

\* A registration for a stored email has been answered with 409
C5_Witness ==
    \E r \in Slots :
        /\ Done(r, "register") /\ ValidCredentials(r) /\ req[r].known
        /\ req[r].status = 409 /\ users # {}

----------------------------------------------------------------------------
(* Properties of login *)

\* A credential with the request's email is stored and the request's
\* password verifies against its hash
CredentialVerifies(q) ==
    \E u \in users : u.email = q.email /\ bcryptCompare(q.password, u.password)

ValidLogin(r) == loginSchema(req[r].email, req[r].password) = <<>>

\* C7 as stated: every login whose email is unknown or whose password does
\* not verify is answered with 401 (the store being up).
C7_BadCredentialsAlways401 ==
    \A r \in Slots :
        (Done(r, "login") /\ req[r].by # "json" /\ ~req[r].dbErr
           /\ ~CredentialVerifies(req[r]))
        => req[r].status = 401

\* C7, amended: a login is answered with 200 and a token only when a
\* credential with its email is stored and its password verifies; a login
\* whose body passes the login schema and whose email is unknown or whose
\* password does not verify is answered with 401 (the store being up), a body
\* that violates the schema with 400; no response other than 200 carries a
\* token, and a token is handed out only by a step that answers such a 200.
C7_LoginOnlyWithCredentials ==
    /\ [](\A r \in Slots :
            Done(r, "login") =>
              /\ req[r].status = 200 =>
                    /\ CredentialVerifies(req[r])
                    /\ req[r].body.token \in issued
              /\ req[r].status # 200 => req[r].body.token = NoToken
              /\ (Handled(r) /\ ~req[r].dbErr /\ ~CredentialVerifies(req[r])) =>
                    req[r].status = IF ValidLogin(r) THEN 401 ELSE 400)
    /\ [][ issued' # issued =>
             \E r \in Slots :
                /\ req[r].pc = "login_compare"
                /\ req'[r].pc = "done" /\ req'[r].status = 200
                /\ CredentialVerifies(req[r])
                /\ issued' = issued \cup {req'[r].body.token} ]_vars

\* After a successful login, a login with a wrong password for a stored
\* email has been answered with 401
C7_Witness ==
    \E r \in Slots :
        /\ Done(r, "login") /\ req[r].status = 401 /\ ValidLogin(r)
        /\ \E u \in users : u.email = req[r].email
        /\ ~CredentialVerifies(req[r])
        /\ issued # {}

----------------------------------------------------------------------------
(* Properties of authenticate *)

\* The request is past authenticate: in its handler, or answered by
\* authenticate or by its handler
PastAuth(r) ==
    /\ req[r].route \in Protected
    /\ \/ req[r].pc \in {"handler", "create_insert", "update_query"}
       \/ req[r].pc = "done" /\ req[r].by \in {"auth", "validate", "store"}

\* authenticate let the request through to its handler
Admitted(r) == PastAuth(r) /\ req[r].by # "auth"

\* The header carries, as its second word, a token with the signature of
\* JWT_SECRET that had not expired at time t
BearsValidToken(h, t) ==
    /\ Len(h) >= 2
    /\ h[2].kind = "jwt"
    /\ h[2].tok.sig = Mac(JWT_SECRET, h[2].tok.userId, h[2].tok.iat, h[2].tok.exp)
    /\ t \div 1000 < h[2].tok.exp

\* C2: only requests whose token verified when authenticate ran reach body
\* validation and the store, and every step that changes the employees
\* table is the store step of such a request.
C2_WritesOnlyWithValidToken ==
    /\ [](\A r \in Slots :
            /\ Admitted(r) => BearsValidToken(req[r].header, req[r].authAt)
            /\ (PastAuth(r) /\ ~BearsValidToken(req[r].header, req[r].authAt))
                 => req[r].pc = "done" /\ req[r].by = "auth")
    /\ [][ employees' # employees =>
             \E r \in Slots :
                /\ Admitted(r)
                /\ BearsValidToken(req[r].header, req[r].authAt)
                /\ req[r].pc \in {"create_insert", "update_query", "handler"}
                /\ req'[r].pc = "done" /\ req'[r].by = "store" ]_vars

\* A request with a valid token has changed the table, and a request with a
\* tampered token has been turned away with the table as it was
C2_Witness ==
    /\ employees # {}
    /\ \E r \in Slots :
        /\ req[r].pc = "done" /\ req[r].by = "auth" /\ req[r].route = "delete"
        /\ req[r].verdict = "invalid"
        /\ headerToken(req[r].header).kind = "jwt"

\* C3: every request to a protected route whose token is missing, has an
\* invalid signature or is expired is answered with 401.
C3_Unauthorized401 ==
    \A r \in Slots :
        (PastAuth(r) /\ ~BearsValidToken(req[r].header, req[r].authAt))
        => req[r].pc = "done" /\ req[r].status = 401

----------------------------------------------------------------------------
(* Properties of the tokens' lifetime *)

\* The request presents, untampered, a token that a login minted at time t
PresentsMinted(r, t) ==
    /\ PastAuth(r)
    /\ Len(req[r].header) = 2
    /\ req[r].header[2].kind = "jwt"
    /\ <<req[r].header[2].tok, t>> \in hist.minted

\* C6 as stated: a token minted at time t is accepted at every time up to
\* t + 1 hour and rejected at every time after t + 1 hour.
C6_AcceptedUpToOneHour ==
    \A r \in Slots : \A m \in hist.minted :
        PresentsMinted(r, m[2]) =>
            IF req[r].authAt <= m[2] + 1000 * expiresInSec
            THEN Admitted(r)
            ELSE ~Admitted(r)

\* C6, amended: a token minted at time t carries iat = t in whole seconds
\* and is accepted by authenticate at every time whose whole second is
\* before iat + 3600, and rejected from the second iat + 3600 on (so at
\* t + 1 hour exactly, and up to one second earlier when t is not on a
\* second boundary), whatever other requests happened in between.
C6_AcceptedUntilExpSecond ==
    \A r \in Slots : \A m \in hist.minted :
        PresentsMinted(r, m[2]) =>
            IF req[r].authAt \div 1000 < (m[2] \div 1000) + expiresInSec
            THEN Admitted(r)
            ELSE req[r].pc = "done" /\ req[r].by = "auth" /\ req[r].status = 400

\* A token minted in the first second has been accepted in the last
\* millisecond before its second of expiry
C6_Witness ==
    \E r \in Slots : \E m \in hist.minted :
        /\ PresentsMinted(r, m[2])
        /\ m[2] = 500
        /\ req[r].authAt = 1000 * expiresInSec - 1
        /\ Admitted(r)

----------------------------------------------------------------------------
(* Properties of the rate limiter *)

----------------------------------------------------------------------------
(* Properties of the employee table *)

Ids(rows) == {e.id : e \in rows}

CreatedIds == {hist.created[i].id : i \in DOMAIN hist.created}

\* C9: GET /employees/:id with the id that a create returned, after the
\* create and with no PUT or DELETE of that id since, returns the record
\* that the create returned (the store being up).
C9_CreateThenGet ==
    \A r \in Slots : \A i \in DOMAIN hist.created :
        ( /\ Done(r, "get") /\ ~req[r].dbErr
          /\ mysqlNumber(req[r].id) = hist.created[i].id
          /\ hist.created[i].id \notin hist.updated \cup hist.deleted )
        => /\ req[r].status = 200
           /\ req[r].body.rows = {hist.created[i]}

\* The second record created has been read back
C9_Witness ==
    \E r \in Slots :
        /\ Done(r, "get") /\ req[r].status = 200
        /\ Len(hist.created) >= 2
        /\ req[r].body.rows = {hist.created[2]}
        /\ hist.created[2].id \notin hist.updated \cup hist.deleted

\* C10: the ids that create assigns are strictly increasing; a row keeps
\* its id until a DELETE removes it; the id of a deleted row is in the table
\* never again, and GET /employees/:id with it is answered with 404 (the
\* store being up).
C10_IdsIncreaseNeverReused ==
    /\ [](/\ \A i, j \in DOMAIN hist.created :
                i < j => hist.created[i].id < hist.created[j].id
          /\ \A e1, e2 \in employees : e1.id = e2.id => e1 = e2
          /\ Ids(employees) \cap hist.deleted = {}
          /\ Ids(employees) \subseteq CreatedIds
          /\ \A r \in Slots :
                (Done(r, "get") /\ ~req[r].dbErr
                   /\ mysqlNumber(req[r].id) \in hist.deleted)
                => req[r].status = 404)
    /\ [][ /\ Ids(employees) \ Ids(employees') \subseteq hist'.deleted
           /\ \A e \in employees' :
                e.id \notin Ids(employees) =>
                    /\ \A old \in CreatedIds : old < e.id
                    /\ e.id \notin hist.deleted ]_vars

\* After the delete of id 1 a create got id 2, and GET of id 1 answers 404
C10_Witness ==
    \E r \in Slots :
        /\ Done(r, "get") /\ req[r].status = 404 /\ mysqlNumber(req[r].id) = 1
        /\ 1 \in hist.deleted
        /\ 2 \in Ids(employees)
        /\ Len(hist.created) = 2

\* The request is at the step of its handler that runs the query on the
\* employees table by id
AtQueryById(r) ==
    \/ req[r].route \in {"get", "delete"} /\ req[r].pc = "handler"
    \/ req[r].route = "update" /\ req[r].pc = "update_query"

\* C11: a GET, an authenticated PUT with a valid body or an authenticated
\* DELETE whose query runs (the store being up) when no row has the id is
\* answered with 404, and the step leaves the employees table as it was.
C11_AbsentIdNotFound ==
    [][ \A r \in Slots :
          ( /\ AtQueryById(r)
            /\ req'[r].pc = "done" /\ ~req'[r].dbErr
            /\ mysqlNumber(req[r].id) \notin Ids(employees) )
          => /\ req'[r].status = 404
             /\ req'[r].body = ErrorBody("Employee not found")
             /\ employees' = employees ]_vars

\* A PUT of an id that no row has was answered with 404 while the table
\* holds a row
C11_Witness ==
    \E r \in Slots :
        /\ Done(r, "update") /\ req[r].by = "store" /\ req[r].status = 404
        /\ mysqlNumber(req[r].id) \notin Ids(employees)
        /\ employees # {}

\* C12: an authenticated PUT whose body violates the employee schema is
\* answered with 400 and the schema's issues as details by the step that
\* validates it, which leaves the employees table as it was; the request
\* does nothing after its answer.
C12_InvalidReplaceRejected ==
    /\ [][ \A r \in Slots :
              ( /\ req[r].route = "update" /\ req[r].pc = "handler"
                /\ req'[r] # req[r]
                /\ employeeSchema(req[r].name, req[r].position) # <<>> )
              => /\ req'[r].pc = "done" /\ req'[r].status = 400
                 /\ req'[r].body.details = employeeSchema(req[r].name, req[r].position)
                 /\ req'[r].body.error = "Validation failed"
                 /\ employees' = employees ]_vars
    /\ [](\A r \in Slots :
            (req[r].route = "update" /\ req[r].pc = "update_query")
            => employeeSchema(req[r].name, req[r].position) = <<>>)

\* A PUT with a name of one character for a stored id was answered with 400
\* and the issue of the name
C12_Witness ==
    \E r \in Slots :
        /\ Done(r, "update") /\ req[r].by = "validate" /\ req[r].status = 400
        /\ req[r].name = NameA
        /\ \E i \in DOMAIN req[r].body.details : req[r].body.details[i].path = "name"
        /\ mysqlNumber(req[r].id) \in Ids(employees)

\* C13: every row of the employees table has a name of at least 2
\* characters and a position of at least 2 characters.
C13_StoredEmployeesValid ==
    \A e \in employees :
        /\ IsString(e.name) /\ Len(e.name) >= 2
        /\ IsString(e.position) /\ Len(e.position) >= 2

\* The table holds a row that a PUT has written and a row as it was inserted
C13_Witness ==
    /\ \E e \in employees : e.id \in hist.updated
    /\ \E e \in employees : e.id \notin hist.updated

\* C15 as stated: a request whose query failed is answered with 500 and a
\* fixed message, never with the text of the error.
C15_StoreFailureGeneric500 ==
    \A r \in Slots :
        (req[r].pc = "done" /\ req[r].dbErr)
        => req[r].status = 500 /\ req[r].body.error # StoreDown

\* C16: of a PUT and a DELETE of the same id, each of which arrived when a
\* row had the id and each answered by its query (the store being up), the
\* DELETE is answered with 200 and the PUT with 200 or 404, and no row has
\* the id once both are answered; such a PUT is answered with 404 exactly
\* when a DELETE has removed the id before its query ran.
C16_ReplaceDeleteRace ==
    /\ [](\A r1, r2 \in Slots :
            ( /\ Done(r1, "update") /\ req[r1].by = "store" /\ ~req[r1].dbErr
              /\ Done(r2, "delete") /\ req[r2].by = "store" /\ ~req[r2].dbErr
              /\ req[r1].known /\ req[r2].known
              /\ mysqlNumber(req[r1].id) = mysqlNumber(req[r2].id) )
            => /\ req[r2].status = 200
               /\ req[r1].status \in {200, 404}
               /\ mysqlNumber(req[r1].id) \notin Ids(employees))
    /\ [][ \A r \in Slots :
              ( /\ req[r].pc = "update_query" /\ req[r].known
                /\ req'[r].pc = "done" /\ ~req'[r].dbErr )
              => req'[r].status =
                   IF mysqlNumber(req[r].id) \in hist.deleted THEN 404 ELSE 200 ]_vars

\* The PUT lost the race: it arrived when the row was there and was
\* answered with 404, the DELETE with 200
C16_Witness ==
    \E r1, r2 \in Slots :
        /\ Done(r1, "update") /\ req[r1].known /\ req[r1].status = 404
        /\ Done(r2, "delete") /\ req[r2].known /\ req[r2].status = 200
        /\ req[r1].id = req[r2].id

\* C18: a PUT with a valid body whose query finds a row with the id (the
\* store being up) is answered with 200 and the row then holds the name and
\* the position of the body, whatever it held before; when the row already
\* holds them, as after the same PUT, the table is as it was.
C18_ReplaceIdempotent ==
    [][ \A r \in Slots :
          ( /\ req[r].pc = "update_query"
            /\ req'[r].pc = "done" /\ ~req'[r].dbErr
            /\ mysqlNumber(req[r].id) \in Ids(employees) )
          => LET id == mysqlNumber(req[r].id)
                 new == Row(id, req[r].name, req[r].position)
             IN  /\ req'[r].status = 200
                 /\ req'[r].body.rows =
                      {Row(req[r].id, req[r].name, req[r].position)}
                 /\ employees' = {e \in employees : e.id # id} \cup {new}
                 /\ new \in employees => employees' = employees ]_vars

\* The same PUT was applied twice, and answered with 200 both times
C18_Witness ==
    \E r1, r2 \in Slots :
        /\ r1 # r2
        /\ Done(r1, "update") /\ req[r1].status = 200
        /\ Done(r2, "update") /\ req[r2].status = 200
        /\ req[r1].id = req[r2].id
        /\ req[r1].name = req[r2].name /\ req[r1].position = req[r2].position
        /\ Row(mysqlNumber(req[r1].id), req[r1].name, req[r1].position) \in employees

----------------------------------------------------------------------------
(* Properties of the pipeline *)

\* The place of a request's position in the order of the stages
Stage(pc) ==
    CASE pc = "idle" -> 0
      [] pc = "limiter" -> 1
      [] pc = "cors" -> 2
      [] pc = "auth" -> 3
      [] pc = "handler" -> 4
      [] pc \in {"register_select", "login_select", "create_insert", "update_query"} -> 5
      [] pc \in {"register_insert", "login_compare"} -> 6
      [] pc = "done" -> 7

\* C14: every step of a request takes it to a later stage; the first stage
\* of every request is the rate limiter, so that no request is answered
\* before the limiter has seen it; cors follows the limiter, authenticate
\* follows cors, and the handler of a protected route, which validates the
\* body, follows authenticate; an answered request runs no further stage.
C14_StagesInOrder ==
    [][ \A r \in Slots :
          req'[r] # req[r] =>
            \/ req[r].pc = "done" /\ req'[r] = Idle
            \/ /\ Stage(req'[r].pc) > Stage(req[r].pc)
               /\ req[r].pc = "idle" => req'[r].pc = "limiter"
               /\ req'[r].pc = "cors" => req[r].pc = "limiter"
               /\ req'[r].pc = "auth" => req[r].pc = "cors"
               /\ (req'[r].pc = "handler" /\ req[r].route \in Protected)
                     => req[r].pc = "auth" ]_vars

\* The steps of the request in slot r
Step(r) ==
    \/ Middleware(r) \/ authenticate(r) \/ Registration(r) \/ Login(r)
    \/ Writes(r) \/ list(r) \/ get(r)

\* C17: no request has more than one response; a request has its response
\* exactly when it is done, and an answered request takes no step but the
\* release of its slot; a request that is in the pipeline has a next step,
\* so that none is left without a response.
C17_ExactlyOneResponse ==
    /\ [](\A r \in Slots :
            /\ req[r].responses <= 1
            /\ (req[r].pc = "done") <=> (req[r].responses = 1)
            /\ req[r].pc \notin {"idle", "done"} => ENABLED Step(r))
    /\ [][ \A r \in Slots :
              req[r].pc = "done" => req'[r] \in {req[r], Idle} ]_vars

\* authenticate has turned away a PUT whose token had expired, with one
\* response
C17_Witness ==
    \E r \in Slots :
        /\ Done(r, "update") /\ req[r].by = "auth" /\ req[r].verdict = "expired"
        /\ req[r].responses = 1

----------------------------------------------------------------------------
(* Properties of the in-memory variant *)

\* C20: the ids of the employees in the array are pairwise distinct.
C20_ArrayIdsDistinct ==
    \A i, j \in DOMAIN inMemory.employees :
        i # j => inMemory.employees[i].id # inMemory.employees[j].id

============================================================================
